---- MODULE Spec2Model ----
(***************************************************************************)
(* The combined-effects pipeline of p5-python: main.py                     *)
(* (apply_combined_effects, generate_comparison, the depth-map cache),     *)
(* composite.py (tiling, lighting, level adjustment, compositing),         *)
(* depth.py (the depth provider) and displacement.py.                      *)
(*                                                                         *)
(* Pixel contents are symbolic terms: a tuple whose first element is the   *)
(* name of the operation that produced it.  Widths and heights are         *)
(* integers.  Real-valued parameters are integers in the unit of their     *)
(* slider: lighting_strength and gamma and contrast in tenths,             *)
(* detail_strength in hundredths; texture_scale is a fraction num/den with *)
(* a power-of-two denominator, so that the floating-point product          *)
(* texture.width * scale_factor is exact.                                  *)
(***************************************************************************)
EXTENDS Integers, Sequences, FiniteSets, TLC

VARIABLES cache, run, req, nCalls, obtained, st

vars == <<cache, run, req, nCalls, obtained, st>>

\* How many requests (generate_comparison calls, or concurrent
\* apply_combined_effects calls) a behaviour holds.
MaxCalls == 2

\* Stage functions called one after the other on the same open images.
MaxStages == 2

\* generate_comparison's solid-colour texture is 100 x 100.
SolidSize == 100

\* generate_lighting_map's default lighting_strength, 0.5, in tenths.
DefaultLightingStrength == 5

\* extract_high_frequency's default blur_radius, 0.5, in tenths.
DefaultDetailBlur == 5

Sides == {"A", "B"}

----------------------------------------------------------------------------
(* Values *)

\* A numpy image array: its shape and its bytes in row-major order.
Arr(h, w, data) == [none |-> FALSE, h |-> h, w |-> w, data |-> data]

\* Python's None where an array is expected.
NoneArr == [none |-> TRUE, h |-> 0, w |-> 0, data |-> <<>>]

\* Two backgrounds of different shape and the same bytes, and a third one.
BgWide == Arr(1, 2, <<7, 7>>)
BgTall == Arr(2, 1, <<7, 7>>)
BgSquare == Arr(2, 2, <<1, 2, 3, 4>>)
Backgrounds == {BgWide, BgTall, BgSquare}

TexSmall == Arr(1, 1, <<9>>)
Textures == {TexSmall}

MaskWide == Arr(1, 2, <<255, 0>>)
MaskSquare == Arr(2, 2, <<255, 255, 0, 0>>)
Masks == {MaskWide, MaskSquare}

\* texture_scale values: 0, 1/4 and 1.
Scales == {[num |-> 0, den |-> 1], [num |-> 1, den |-> 4], [num |-> 1, den |-> 1]}

\* One side's parameters (the sliders of a parameter group).
ParamDefault ==
    [strength |-> 60, blur |-> 5, lighting |-> 1, black |-> 0, white |-> 100,
     gamma |-> 10, contrast |-> 10, lightness |-> 0, detail |-> 5]
ParamSharp ==
    [strength |-> 20, blur |-> 0, lighting |-> 5, black |-> 10, white |-> 90,
     gamma |-> 12, contrast |-> 20, lightness |-> 10, detail |-> 0]
ParamFlat ==
    [strength |-> 0, blur |-> 0, lighting |-> 1, black |-> 50, white |-> 50,
     gamma |-> 10, contrast |-> 10, lightness |-> 0, detail |-> 5]
ParamSets == {ParamDefault, ParamSharp, ParamFlat}

NoPx == <<"none">>
NoImage == [w |-> 0, h |-> 0, px |-> NoPx]
NoPil == [mode |-> "none", w |-> 0, h |-> 0, px |-> NoPx]
NoFile == [fmt |-> "none", mode |-> "none", w |-> 0, h |-> 0, px |-> NoPx]

----------------------------------------------------------------------------
(* PIL and Wand primitives, and the files between them *)

\* Image.fromarray: the array's pixels; a width x height image.
FromArray(a) == [mode |-> "RGB", w |-> a.w, h |-> a.h, px |-> <<"pixels", a.h, a.w, a.data>>]

\* PIL's Image.save(path) as PNG (lossless).
PngEncode(img) == [fmt |-> "png", mode |-> img.mode, w |-> img.w, h |-> img.h, px |-> img.px]

\* PIL's Image.open(path).
PilOpen(file) == [mode |-> file.mode, w |-> file.w, h |-> file.h, px |-> file.px]

\* WandImage(filename=path).
WandOpen(file) == [w |-> file.w, h |-> file.h, px |-> file.px]

\* wand's Image.save(filename=path) followed by a WandImage(filename=path).
WandFile(img) == [fmt |-> "png", mode |-> "RGBA", w |-> img.w, h |-> img.h, px |-> img.px]

\* depth_image.filter(ImageFilter.GaussianBlur(radius)).
GaussianBlur(img, radius) == [img EXCEPT !.px = <<"gaussian_blur", radius, @>>]

\* Image.resize(width, height).
Resize(img, w, h) == [w |-> w, h |-> h, px |-> <<"resize", w, h, img.px>>]

\* Image.composite(src, operator=op): dst keeps its size.
Composite(dst, src, op) == [dst EXCEPT !.px = <<"composite", op, @, src.px, src.w, src.h>>]

\* A one-image operation with one argument (evaluate, transparentize, ...).
Apply(img, op, arg) == [img EXCEPT !.px = <<op, arg, @>>]

\* Image(width=w, height=h, background=color).
Canvas(w, h, color) == [w |-> w, h |-> h, px |-> <<"canvas", color>>]

\* Python's int() of the exact quotient n / d, d > 0: truncation toward zero.
Trunc(n, d) == IF n >= 0 THEN n \div d ELSE -((-n) \div d)

----------------------------------------------------------------------------
(* main.py: the depth cache's key *)

\* image_array.tobytes(): the bytes, without the shape.
ToBytes(a) == a.data

\* get_image_hash: md5 of the bytes (taken as collision-free on bytes).
get_image_hash(a) == <<"md5", ToBytes(a)>>

Keys == {get_image_hash(b) : b \in Backgrounds}

\* depth.py handle_depth: the model's depth image, of the image's size.
handle_depth(a) == [mode |-> "L", w |-> a.w, h |-> a.h, px |-> <<"depth", a.h, a.w, a.data>>]

----------------------------------------------------------------------------
(* composite.py *)

\* The stamping loops of create_tiled_texture: (left, top) in loop order.
StampPositions(cols, rows, tw, th) ==
    [i \in 1..(cols * rows) |-> <<((i - 1) % cols) * tw, ((i - 1) \div cols) * th>>]

\* create_tiled_texture.  wand's resize raises ValueError unless both sizes
\* are counting numbers, so the divisions below never see a zero.
create_tiled_texture(texture, target_width, target_height, scale) ==
    LET texture_width == Trunc(texture.w * scale.num, scale.den)
        texture_height == Trunc(texture.h * scale.num, scale.den)
    IN  IF texture_width < 1 \/ texture_height < 1
        THEN [ok |-> FALSE, img |-> NoImage, sw |-> texture_width, sh |-> texture_height,
              cols |-> 0, rows |-> 0]
        ELSE LET scaled == Resize(texture, texture_width, texture_height)
                 cols == (target_width + texture_width - 1) \div texture_width
                 rows == (target_height + texture_height - 1) \div texture_height
                 tiled == [w |-> target_width, h |-> target_height,
                           px |-> <<"tiled", scaled.px,
                                    StampPositions(cols, rows, texture_width, texture_height)>>]
             IN  [ok |-> TRUE, img |-> tiled, sw |-> texture_width, sh |-> texture_height,
                  cols |-> cols, rows |-> rows]

\* generate_lighting_map.
generate_lighting_map(depth_map, background, mask, lighting_strength, light_color) ==
    LET bg_lighting == Apply(Apply(background, "transform_colorspace", "gray"), "normalize", 0)
        multiplied == Composite(depth_map, bg_lighting, "multiply")
        lighting_map == Apply(Apply(multiplied, "evaluate_subtract", lighting_strength),
                              "alpha_remove", "grey50")
        light_layer == Canvas(background.w, background.h, light_color)
    IN  Composite(Composite(light_layer, lighting_map, "multiply"), mask, "copy_opacity")

\* Image.level(black, white, gamma): with black 0, white 1 and gamma 1 the
\* tone curve maps every value to itself; points are in percent, gamma in
\* tenths.
Level(img, black_point, white_point, gamma) ==
    IF black_point = 0 /\ white_point = 100 /\ gamma = 10
    THEN img
    ELSE Apply(img, "level", <<black_point, white_point, gamma>>)

\* A contrast step that ran whatever the contrast is.
ContrastAppliedAlways(contrast) == TRUE

\* adjust_levels, line 138: the contrast step runs unless contrast is 1.0.
ContrastApplied(contrast) == contrast # 10

\* adjust_levels, line 146: the lightness step runs unless lightness is 0.
LightnessApplied(lightness) == lightness # 0

\* adjust_levels.
adjust_levels(image, black_point, white_point, gamma, contrast, lightness) ==
    LET levelled == Level(image, black_point, white_point, gamma)
        contrasted == IF ContrastApplied(contrast)
                      THEN Apply(levelled, "sigmoidal_contrast", contrast * 3)
                      ELSE levelled
    IN  IF LightnessApplied(lightness)
        THEN Apply(contrasted, "modulate", 100 + lightness)
        ELSE contrasted

\* tint_masked_area.
tint_masked_area(background, mask, p) ==
    LET bw_bg == adjust_levels(Apply(background, "transform_colorspace", "gray"),
                               p.black, p.white, p.gamma, p.contrast, p.lightness)
    IN  Composite(background, Composite(bw_bg, mask, "copy_opacity"), "over")

\* extract_high_frequency.
extract_high_frequency(image, mask, blur_radius) ==
    LET gray == Apply(image, "transform_colorspace", "gray")
        blurred == Apply(gray, "gaussian_blur", blur_radius)
        high_freq == Apply(Composite(gray, blurred, "difference"), "normalize", 0)
        gray_bg == Canvas(image.w, image.h, "gray50")
    IN  Composite(Composite(gray_bg, high_freq, "overlay"), mask, "copy_opacity")

\* A detail overlay that ran for every detail_strength from 0 up.
DetailAppliedFromZero(detail_strength) == detail_strength >= 0

\* composite_with_lighting, line 244: the detail overlay runs for a positive
\* detail_strength only.
DetailApplied(detail_strength) == detail_strength > 0

\* A lighting layer blended with another operator.
LightingBlendOverlay == "overlay"

\* composite_with_lighting, line 238: the lighting layer's blend operator.
LightingBlend == "hard_light"

\* composite_with_lighting.
composite_with_lighting(texture, background, mask, lighting_map, p) ==
    LET high_freq == extract_high_frequency(background, mask, DefaultDetailBlur)
        tinted == tint_masked_area(background, mask, p)
        masked_texture == Composite(texture, mask, "copy_opacity")
        adjusted_lighting == Apply(lighting_map, "transparentize", 10 - p.lighting)
        lit == Composite(tinted, adjusted_lighting, LightingBlend)
        textured == Composite(lit, masked_texture, "multiply")
    IN  IF DetailApplied(p.detail)
        THEN Composite(textured, Apply(high_freq, "evaluate_multiply", p.detail), "overlay")
        ELSE textured

----------------------------------------------------------------------------
(* displacement.py *)

\* displacement_mapping: the depth map is stretched to the original's size.
displacement_mapping(original, depth, strength) ==
    LET resized == Resize(depth, original.w, original.h)
    IN  [original EXCEPT !.px = <<"displace", strength, @, resized.px>>]

----------------------------------------------------------------------------
(* composite.py on buffers: each wand image is an object that clone() copies *)
(* and composite() and the other operations change in place                  *)

\* One operation of a stage function `fn` on the buffers: `out` is the
\* content of buffer `dst` after it (for a call, of the argument `src`).
Entry(fn, op, how, dst, src, out) ==
    [fn |-> fn, op |-> op, how |-> how, dst |-> dst, src |-> src, out |-> out]

\* One statement of a stage function: dst and src are the function's local
\* names, how a composite's operator (a call's callee), arg the other
\* arguments.
I(op, dst, src, how, arg) == [op |-> op, dst |-> dst, src |-> src, how |-> how, arg |-> arg]

\* with src.clone() as dst.
Clone(dst, src) == I("clone", dst, src, "", <<>>)

\* dst.composite(src, operator=how).
Comp(dst, src, how) == I("composite", dst, src, how, <<>>)

\* dst.op(arg), for the one-image operations.
Op(dst, op, arg) == I(op, dst, "", "", <<arg>>)

\* return src.clone().
Ret(src) == I("return", "", src, "", <<>>)

\* dst = callee(src, ...): body is the callee's statements, bind gives each
\* of its parameters the caller's local name for the argument.
Call(dst, callee, src, bind, body) ==
    I("call", dst, src, callee, [bind |-> bind, body |-> body])

\* create_tiled_texture's statements (the crop to the canvas' own size
\* changes nothing).  A raising resize ends the function without a return.
create_tiled_textureP(texture, target_width, target_height, scale) ==
    LET t == create_tiled_texture(texture, target_width, target_height, scale)
    IN  <<Clone("scaled_texture", "texture")>> \o
        (IF t.ok
         THEN <<I("resize", "scaled_texture", "", "", <<t.sw, t.sh>>),
                I("new", "tiled", "", "none", <<target_width, target_height>>),
                I("tile", "tiled", "scaled_texture", "",
                  <<target_width, target_height,
                    StampPositions(t.cols, t.rows, t.sw, t.sh)>>),
                Ret("tiled")>>
         ELSE <<>>)

\* generate_lighting_map's statements.
generate_lighting_mapP(width, height, lighting_strength, light_color) ==
    <<Clone("lighting_map", "depth_map"),
      Clone("bg_lighting", "background"),
      Op("bg_lighting", "transform_colorspace", "gray"),
      Op("bg_lighting", "normalize", 0),
      Comp("lighting_map", "bg_lighting", "multiply"),
      Op("lighting_map", "evaluate_subtract", lighting_strength),
      Op("lighting_map", "alpha_remove", "grey50"),
      I("new", "light_layer", "", light_color, <<width, height>>),
      Comp("light_layer", "lighting_map", "multiply"),
      Comp("light_layer", "mask", "copy_opacity"),
      Ret("light_layer")>>

\* adjust_levels' statements.
adjust_levelsP(black_point, white_point, gamma, contrast, lightness) ==
    <<Clone("adjusted", "image"),
      I("level", "adjusted", "", "", <<black_point, white_point, gamma>>)>> \o
    (IF ContrastApplied(contrast)
     THEN <<Op("adjusted", "sigmoidal_contrast", contrast * 3)>> ELSE <<>>) \o
    (IF LightnessApplied(lightness)
     THEN <<Op("adjusted", "modulate", 100 + lightness)>> ELSE <<>>) \o
    <<Ret("adjusted")>>

\* tint_masked_area's statements: bw_bg is rebound to adjust_levels' result.
tint_masked_areaP(p) ==
    <<Clone("result", "background"),
      Clone("bw_bg", "background"),
      Op("bw_bg", "transform_colorspace", "gray"),
      Call("bw_bg", "adjust_levels", "bw_bg", [image |-> "bw_bg"],
           adjust_levelsP(p.black, p.white, p.gamma, p.contrast, p.lightness)),
      Comp("bw_bg", "mask", "copy_opacity"),
      Comp("result", "bw_bg", "over"),
      Ret("result")>>

\* extract_high_frequency's statements.
extract_high_frequencyP(width, height, blur_radius) ==
    <<Clone("high_freq", "image"),
      Op("high_freq", "transform_colorspace", "gray"),
      Clone("blurred", "high_freq"),
      Op("blurred", "gaussian_blur", blur_radius),
      Comp("high_freq", "blurred", "difference"),
      Op("high_freq", "normalize", 0),
      I("new", "gray_bg", "", "gray50", <<width, height>>),
      Comp("gray_bg", "high_freq", "overlay"),
      Comp("gray_bg", "mask", "copy_opacity"),
      Ret("gray_bg")>>

\* A texture clipped in place: masked_texture names the caller's own buffer.
masked_texture_in_place == I("alias", "masked_texture", "texture", "", <<>>)

\* composite_with_lighting, line 231: the texture is cloned before it is
\* clipped to the mask.
masked_texture_clone == Clone("masked_texture", "texture")

\* composite_with_lighting's statements: background is rebound to
\* tint_masked_area's result.
composite_with_lightingP(width, height, p) ==
    <<Call("high_freq", "extract_high_frequency", "background",
           [image |-> "background", mask |-> "mask"],
           extract_high_frequencyP(width, height, DefaultDetailBlur)),
      Call("background", "tint_masked_area", "background",
           [background |-> "background", mask |-> "mask"],
           tint_masked_areaP(p)),
      masked_texture_clone,
      Comp("masked_texture", "mask", "copy_opacity"),
      Clone("result", "background"),
      Clone("adjusted_lighting", "lighting_map"),
      Op("adjusted_lighting", "transparentize", 10 - p.lighting),
      Comp("result", "adjusted_lighting", LightingBlend),
      Comp("result", "masked_texture", "multiply")>> \o
    (IF DetailApplied(p.detail)
     THEN <<Clone("details", "high_freq"),
            Op("details", "evaluate_multiply", p.detail),
            Comp("result", "details", "overlay")>>
     ELSE <<>>) \o
    <<Ret("result")>>

\* A running stage function: the buffers, the operations so far, the
\* function's name, its locals (name to buffer) and the buffer it returned.
Frame(heap, log, fn, env) == [heap |-> heap, log |-> log, fn |-> fn, env |-> env, ret |-> 0]

\* A new buffer bound to the local name dst.
Alloc(f, op, dst, src, img) ==
    [f EXCEPT !.heap = Append(@, img),
              !.log = Append(@, Entry(f.fn, op, "", Len(f.heap) + 1, src, img)),
              !.env = (dst :> (Len(f.heap) + 1)) @@ @]

\* The buffer named dst changed in place.
Update(f, op, how, dst, src, img) ==
    [f EXCEPT !.heap[f.env[dst]] = img,
              !.log = Append(@, Entry(f.fn, op, how, f.env[dst], src, img))]

\* The caller's frame after the callee's frame g has returned into dst.
CallDone(f, dst, g) ==
    [f EXCEPT !.heap = g.heap, !.log = g.log, !.env = (dst :> g.ret) @@ @]

RECURSIVE Exec(_, _, _)

\* One statement i run in the frame f.
Do(f, i) ==
    LET dst == f.heap[f.env[i.dst]]
        src == f.heap[f.env[i.src]]
    IN  CASE i.op = "clone" -> Alloc(f, "clone", i.dst, f.env[i.src], src)
          [] i.op = "new" -> Alloc(f, "new", i.dst, 0, Canvas(i.arg[1], i.arg[2], i.how))
          [] i.op = "alias" -> [f EXCEPT !.env = (i.dst :> f.env[i.src]) @@ @]
          [] i.op = "composite" ->
                Update(f, "composite", i.how, i.dst, f.env[i.src], Composite(dst, src, i.how))
          [] i.op = "tile" ->
                Update(f, "composite", "tile", i.dst, f.env[i.src],
                       [w |-> i.arg[1], h |-> i.arg[2], px |-> <<"tiled", src.px, i.arg[3]>>])
          [] i.op = "resize" ->
                Update(f, "resize", "", i.dst, 0, Resize(dst, i.arg[1], i.arg[2]))
          [] i.op = "level" ->
                Update(f, "level", "", i.dst, 0, Level(dst, i.arg[1], i.arg[2], i.arg[3]))
          [] i.op = "return" ->
                [Alloc(f, "return", "return", f.env[i.src], src) EXCEPT !.ret = Len(f.heap) + 1]
          [] i.op = "call" ->
                CHOOSE r \in
                    {CallDone(f, i.dst, g) :
                        g \in {Exec(Frame(f.heap,
                                          Append(f.log, Entry(f.fn, "call", i.how, 0,
                                                              f.env[i.src], src)),
                                          i.how,
                                          [n \in DOMAIN i.arg.bind |-> f.env[i.arg.bind[n]]]),
                                    i.arg.body, 1)}} : TRUE
          [] OTHER -> Update(f, i.op, "", i.dst, 0, Apply(dst, i.op, i.arg[1]))

\* The statements body[k..] run in the frame f, each on the frame the one
\* before it left.
Exec(f, body, k) ==
    IF k > Len(body)
    THEN f
    ELSE CHOOSE g \in {Exec(Do(x, i), body, k + 1) : x \in {f}, i \in {body[k]}} : TRUE

\* A stage function called on the buffers m with its parameters bound by env.
Invoke(m, fn, env, body) ==
    CHOOSE r \in {[m |-> [heap |-> g.heap, log |-> g.log], ret |-> g.ret] :
                      g \in {Exec(Frame(m.heap, m.log, fn, env), body, 1)}} : TRUE

\* create_tiled_texture on buffers.
create_tiled_textureH(m, texture, target_width, target_height, scale) ==
    Invoke(m, "create_tiled_texture", [texture |-> texture],
           create_tiled_textureP(m.heap[texture], target_width, target_height, scale))

\* generate_lighting_map on buffers.
generate_lighting_mapH(m, depth_map, background, mask, lighting_strength, light_color) ==
    Invoke(m, "generate_lighting_map",
           [depth_map |-> depth_map, background |-> background, mask |-> mask],
           generate_lighting_mapP(m.heap[background].w, m.heap[background].h,
                                  lighting_strength, light_color))

\* adjust_levels on buffers.
adjust_levelsH(m, image, black_point, white_point, gamma, contrast, lightness) ==
    Invoke(m, "adjust_levels", [image |-> image],
           adjust_levelsP(black_point, white_point, gamma, contrast, lightness))

\* tint_masked_area on buffers.
tint_masked_areaH(m, background, mask, p) ==
    Invoke(m, "tint_masked_area", [background |-> background, mask |-> mask],
           tint_masked_areaP(p))

\* extract_high_frequency on buffers.
extract_high_frequencyH(m, image, mask, blur_radius) ==
    Invoke(m, "extract_high_frequency", [image |-> image, mask |-> mask],
           extract_high_frequencyP(m.heap[image].w, m.heap[image].h, blur_radius))

\* composite_with_lighting on buffers.
composite_with_lightingH(m, texture, background, mask, lighting_map, p) ==
    Invoke(m, "composite_with_lighting",
           [texture |-> texture, background |-> background, mask |-> mask,
            lighting_map |-> lighting_map],
           composite_with_lightingP(m.heap[background].w, m.heap[background].h, p))

NoBuffers == [heap |-> <<>>, log |-> <<>>]

\* No image is open: the state of the buffers outside a composition.
StageIdle ==
    [pc |-> "idle", fn |-> "none", m |-> NoBuffers, opened |-> <<>>, heap0 |-> <<>>, from |-> 0,
     ret |-> 0, n |-> 0, texture |-> 0, background |-> 0, mask |-> 0, depth |-> 0,
     lighting_map |-> 0, image |-> 0, p |-> ParamDefault, scale |-> [num |-> 1, den |-> 1]]

----------------------------------------------------------------------------
(* main.py: one call of apply_combined_effects, step by step *)

NoResult == [ok |-> FALSE, file |-> NoFile]

NoArgs ==
    [texture |-> NoneArr, background |-> NoneArr, mask |-> NoneArr,
     scale |-> [num |-> 1, den |-> 1], tile |-> FALSE, p |-> ParamDefault]

NoTiling == [called |-> FALSE, ok |-> FALSE, w |-> 0, h |-> 0, sw |-> 0, sh |-> 0]

\* A call that has not started: no local is bound, no file exists.
IdleRun ==
    [pc |-> "idle", args |-> NoArgs, locals |-> {}, tmp |-> {}, calls |-> <<>>,
     depth_image |-> NoPil, hit |-> FALSE, prior |-> FALSE, created |-> FALSE,
     readPartial |-> FALSE, tiling |-> NoTiling, texture |-> NoImage,
     lighting_map |-> NoImage, final_result |-> NoImage, maskUse |-> <<>>,
     result |-> NoResult, diag |-> "none", failedAt |-> "none", fault |-> "none",
     cache0 |-> [k \in Keys |-> [st |-> "absent", png |-> NoFile]]]

\* A call with its arguments; cache0 remembers the cache the call found.
BeginRun(args, c) == [IdleRun EXCEPT !.pc = "check", !.args = args, !.cache0 = c]

\* The temporary files the finally block unlinks.
TempNames == {"texture", "background", "mask", "depth", "tiled", "displaced"}

\* The except block's diagnosis, from the locals bound so far.
Diagnose(locals) ==
    IF "depth_image" \notin locals THEN "depth generation"
    ELSE IF "displaced_texture" \notin locals THEN "displacement"
    ELSE IF "final_result" \notin locals THEN "composition"
    ELSE "none"

\* A finally block whose list left the displaced-texture file out.
FinallyKeepsDisplaced(rr) ==
    [rr EXCEPT !.pc = "done", !.tmp = @ \ (TempNames \ {"displaced"})]

\* The finally block, lines 283-306: every path that was assigned is
\* unlinked (an unlink is taken to succeed on a file the call wrote itself).
Finally(rr) == [rr EXCEPT !.pc = "done", !.tmp = @ \ TempNames]

\* An exception raised in `stage`: the except block, then the finally block.
\* `fault` names the environment's failure, "none" when the code itself raised.
Except(rr, stage, fault) ==
    Finally([rr EXCEPT !.result = NoResult, !.diag = Diagnose(rr.locals),
                       !.failedAt = stage, !.fault = fault])

\* The files the call reads back with WandImage(filename=...).
TextureFile(args) == PngEncode(FromArray(args.texture))
BackgroundFile(args) == PngEncode(FromArray(args.background))
MaskFile(args) == PngEncode(FromArray(args.mask))

\* One consumption of the mask beside the background.
MaskUse(at, mask, background) ==
    [at |-> at, mw |-> mask.w, mh |-> mask.h, bw |-> background.w, bh |-> background.h]

\* Lines 193-197: the blur, applied after lookup and store.
BlurDepth(depth_image, blur_radius) ==
    IF blur_radius > 0 THEN GaussianBlur(depth_image, blur_radius) ELSE depth_image

\* A store placed after the blur of lines 193-196 would write this.
DepthToStoreBlurred(depth_image, blur_radius) == BlurDepth(depth_image, blur_radius)

\* The image line 191 hands to save_depth_map: handle_depth's result as it
\* is, the blur of lines 193-196 coming after the store.
DepthToStore(depth_image, blur_radius) == depth_image

\* What save_depth_map writes for a depth image.
CacheContent(depth_image) == PngEncode(depth_image)

\* A call that handed its own lighting_strength to generate_lighting_map.
LightingStrengthArgOfRun(p) == p.lighting

\* Lines 238-242: generate_lighting_map is called with the depth, background
\* and mask only, so its lighting_strength is its default.
LightingStrengthArg(p) == DefaultLightingStrength

\* The number of calls of `name` in a call log.
CountCalls(calls, name) == Cardinality({i \in DOMAIN calls : calls[i] = name})

\* A handler that called the provider a second time before giving up.
OnDepthFailureRetry(rr) ==
    IF CountCalls(rr.calls, "handle_depth") < 2
    THEN [rr EXCEPT !.pc = "estimate"]
    ELSE Except(rr, "handle_depth", "handle_depth")

\* handle_depth raised: the exception reaches the except block; the provider
\* is not called again.
OnDepthFailure(rr) == Except(rr, "handle_depth", "handle_depth")

Absent == [st |-> "absent", png |-> NoFile]
Partial == [st |-> "partial", png |-> NoFile]
Complete(png) == [st |-> "complete", png |-> png]

\* cache_path.exists().
CacheExists(c, key) == c[key].st # "absent"

Set(r, rr) == run' = [run EXCEPT ![r] = rr]

\* Line 159: a missing image returns None before the try block.
CheckInputs(r) ==
    /\ run[r].pc = "check"
    /\ LET a == run[r].args IN
       IF a.texture.none \/ a.background.none \/ a.mask.none
       THEN Set(r, [run[r] EXCEPT !.pc = "done", !.result = NoResult])
       ELSE Set(r, [run[r] EXCEPT !.pc = "save_inputs"])
    /\ UNCHANGED <<cache, req, nCalls, obtained, st>>

\* Lines 176-184: the three inputs are written to temporary files.
SaveInputs(r) ==
    /\ run[r].pc = "save_inputs"
    /\ \E ok \in BOOLEAN :
         IF ok
         THEN Set(r, [run[r] EXCEPT !.pc = "lookup", !.tmp = {"texture", "background", "mask"}])
         ELSE Set(r, Except([run[r] EXCEPT !.tmp = {"texture"}], "save_inputs", "save_inputs"))
    /\ UNCHANGED <<cache, req, nCalls, obtained, st>>

\* get_cached_depth_map, lines 35-40 and 43: the existence check.
Lookup(r) ==
    /\ run[r].pc = "lookup"
    /\ LET rr == [run[r] EXCEPT !.calls = Append(@, "get_cached_depth_map")]
           key == get_image_hash(run[r].args.background)
       IN  IF CacheExists(cache, key)
           THEN Set(r, [rr EXCEPT !.pc = "open"])
           ELSE Set(r, [rr EXCEPT !.pc = "estimate", !.locals = @ \cup {"depth_image"}])
    /\ UNCHANGED <<cache, req, nCalls, obtained, st>>

\* get_cached_depth_map, line 42: Image.open of the entry.  A file that is
\* still being written does not open; an exception leaves depth_image unbound.
OpenCached(r) ==
    /\ run[r].pc = "open"
    /\ LET bg == run[r].args.background
           entry == cache[get_image_hash(bg)]
       IN  \E ok \in BOOLEAN :
             IF entry.st = "complete" /\ ok
             THEN /\ Set(r, [run[r] EXCEPT !.pc = "blur", !.hit = TRUE,
                                           !.locals = @ \cup {"depth_image"},
                                           !.depth_image = PilOpen(entry.png),
                                           !.prior = obtained[bg] # {}])
                  /\ obtained' = [obtained EXCEPT ![bg] = @ \cup {PilOpen(entry.png)}]
             ELSE /\ Set(r, Except([run[r] EXCEPT !.readPartial = (entry.st = "partial")],
                                   "get_cached_depth_map",
                                   IF entry.st = "complete" THEN "cache_read" ELSE "none"))
                  /\ UNCHANGED obtained
    /\ UNCHANGED <<cache, req, nCalls, st>>

\* Line 190: the depth provider, on a miss.
Estimate(r) ==
    /\ run[r].pc = "estimate"
    /\ LET rr == [run[r] EXCEPT !.calls = Append(@, "handle_depth")] IN
       \E ok \in BOOLEAN :
         IF ok
         THEN Set(r, [rr EXCEPT !.pc = "store", !.depth_image = handle_depth(rr.args.background)])
         ELSE Set(r, OnDepthFailure(rr))
    /\ UNCHANGED <<cache, req, nCalls, obtained, st>>

\* save_depth_map, line 50: Image.save opens the file for writing, which
\* creates it or empties it.
StoreBegin(r) ==
    /\ run[r].pc = "store"
    /\ LET key == get_image_hash(run[r].args.background) IN
       /\ Set(r, [run[r] EXCEPT !.pc = "store_end", !.created = ~CacheExists(cache, key),
                                !.calls = Append(@, "save_depth_map")])
       /\ cache' = [cache EXCEPT ![key] = Partial]
    /\ UNCHANGED <<req, nCalls, obtained, st>>

\* save_depth_map, line 50: the data is written and the file closed; when the
\* write fails, Image.save removes the file if it had created it.
StoreEnd(r) ==
    /\ run[r].pc = "store_end"
    /\ LET bg == run[r].args.background
           key == get_image_hash(bg)
       IN  \E ok \in BOOLEAN :
             IF ok
             THEN /\ cache' = [cache EXCEPT ![key] = Complete(CacheContent(DepthToStore(run[r].depth_image,
                                                                         run[r].args.p.blur)))]
                  /\ Set(r, [run[r] EXCEPT !.pc = "blur", !.prior = obtained[bg] # {}])
                  /\ obtained' = [obtained EXCEPT ![bg] = @ \cup {run[r].depth_image}]
             ELSE /\ cache' = [cache EXCEPT ![key] = IF run[r].created THEN Absent ELSE Partial]
                  /\ Set(r, Except(run[r], "save_depth_map", "cache_write"))
                  /\ UNCHANGED obtained
    /\ UNCHANGED <<req, nCalls, st>>

\* Lines 193-197: blur, then the depth image is written to depth_path.
Blur(r) ==
    /\ run[r].pc = "blur"
    /\ Set(r, [run[r] EXCEPT !.pc = "tile",
                             !.depth_image = BlurDepth(@, run[r].args.p.blur),
                             !.tmp = @ \cup {"depth"}])
    /\ UNCHANGED <<cache, req, nCalls, obtained, st>>

\* Lines 200-213: displaced_texture = None, the texture is opened and, when
\* tiling is asked for, tiled to the background's size and saved.
Tile(r) ==
    /\ run[r].pc = "tile"
    /\ LET a == run[r].args
           rr == [run[r] EXCEPT !.locals = @ \cup {"displaced_texture"}]
           texture == WandOpen(TextureFile(a))
           background == WandOpen(BackgroundFile(a))
           t == create_tiled_texture(texture, background.w, background.h, a.scale)
       IN  IF ~a.tile
           THEN Set(r, [rr EXCEPT !.pc = "displace", !.texture = texture])
           ELSE LET rt == [rr EXCEPT !.calls = Append(@, "create_tiled_texture"),
                                     !.tiling = [called |-> TRUE, ok |-> t.ok, w |-> t.img.w,
                                                 h |-> t.img.h, sw |-> t.sw, sh |-> t.sh]]
                IN  IF t.ok
                    THEN Set(r, [rt EXCEPT !.pc = "displace", !.tmp = @ \cup {"tiled"},
                                           !.texture = WandOpen(WandFile(t.img))])
                    ELSE Set(r, Except(rt, "create_tiled_texture", "none"))
    /\ UNCHANGED <<cache, req, nCalls, obtained, st>>

\* Lines 216-231: displacement of the (tiled) texture by the depth file; the
\* result is saved to displaced_path.
Displace(r) ==
    /\ run[r].pc = "displace"
    /\ LET a == run[r].args
           rr == [run[r] EXCEPT !.calls = Append(@, "displacement_mapping")]
           depth == WandOpen(PngEncode(rr.depth_image))
       IN  \E ok \in BOOLEAN :
             IF ok
             THEN Set(r, [rr EXCEPT !.pc = "lighting", !.tmp = @ \cup {"displaced"},
                                    !.texture = displacement_mapping(rr.texture, depth, a.p.strength)])
             ELSE Set(r, Except(rr, "displacement_mapping", "displacement_mapping"))
    /\ UNCHANGED <<cache, req, nCalls, obtained, st>>

\* Lines 234-242: the lighting map, from the depth, background and mask files
\* as they are, with generate_lighting_map's default strength and colour.
Lighting(r) ==
    /\ run[r].pc = "lighting"
    /\ LET a == run[r].args
           depth == WandOpen(PngEncode(run[r].depth_image))
           background == WandOpen(BackgroundFile(a))
           mask == WandOpen(MaskFile(a))
           rr == [run[r] EXCEPT !.calls = Append(@, "generate_lighting_map"),
                                !.maskUse = Append(@, MaskUse("generate_lighting_map", mask, background))]
       IN  \E ok \in BOOLEAN :
             IF ok
             THEN Set(r, [rr EXCEPT !.pc = "composite",
                                    !.lighting_map =
                                        generate_lighting_map(depth, background, mask,
                                                              LightingStrengthArg(a.p), "grey48")])
             ELSE Set(r, Except(rr, "generate_lighting_map", "generate_lighting_map"))
    /\ UNCHANGED <<cache, req, nCalls, obtained, st>>

\* Lines 245-260: composite_with_lighting on the displaced texture.
CompositeLit(r) ==
    /\ run[r].pc = "composite"
    /\ LET a == run[r].args
           texture == WandOpen(WandFile(run[r].texture))
           background == WandOpen(BackgroundFile(a))
           mask == WandOpen(MaskFile(a))
           rr == [run[r] EXCEPT !.calls = Append(@, "composite_with_lighting"),
                                !.maskUse = Append(@, MaskUse("composite_with_lighting", mask, background))]
       IN  \E ok \in BOOLEAN :
             IF ok
             THEN Set(r, [rr EXCEPT !.pc = "save_final",
                                    !.locals = @ \cup {"final_result"},
                                    !.final_result =
                                        composite_with_lighting(texture, background, mask,
                                                                rr.lighting_map, a.p)])
             ELSE Set(r, Except(rr, "composite_with_lighting", "composite_with_lighting"))
    /\ UNCHANGED <<cache, req, nCalls, obtained, st>>

\* Lines 263-265: the final image is saved and its path returned, then the
\* finally block runs.
SaveFinal(r) ==
    /\ run[r].pc = "save_final"
    /\ \E ok \in BOOLEAN :
         IF ok
         THEN Set(r, Finally([run[r] EXCEPT !.tmp = @ \cup {"final"},
                                            !.result = [ok |-> TRUE,
                                                        file |-> WandFile(run[r].final_result)]]))
         ELSE Set(r, Except(run[r], "save_final", "save_final"))
    /\ UNCHANGED <<cache, req, nCalls, obtained, st>>

\* One step of the call r.
Step(r) ==
    \/ CheckInputs(r)
    \/ SaveInputs(r)
    \/ Lookup(r)
    \/ OpenCached(r)
    \/ Estimate(r)
    \/ StoreBegin(r)
    \/ StoreEnd(r)
    \/ Blur(r)
    \/ Tile(r)
    \/ Displace(r)
    \/ Lighting(r)
    \/ CompositeLit(r)
    \/ SaveFinal(r)

----------------------------------------------------------------------------
(* main.py: generate_comparison, side A and then side B *)

\* np.array of the 100 x 100 solid-colour image (its bytes are one colour).
SolidTexture == Arr(SolidSize, SolidSize, <<128>>)

IdleReq ==
    [pc |-> "idle", texture |-> NoneArr, background |-> NoneArr, mask |-> NoneArr,
     scale |-> [num |-> 1, den |-> 1], tile |-> FALSE, a |-> ParamDefault,
     b |-> ParamDefault, cache0 |-> [k \in Keys |-> Absent]]

\* The arguments generate_comparison passes to apply_combined_effects for a side.
ArgsOf(q, side) ==
    [texture |-> q.texture, background |-> q.background, mask |-> q.mask,
     scale |-> q.scale, tile |-> q.tile, p |-> IF side = "A" THEN q.a ELSE q.b]

\* A comparison that gave up when side A returned None.
AfterAStopOnFailure(result_a) == IF result_a.ok THEN "B" ELSE "return"

\* What generate_comparison does once side A has returned: side B, whatever
\* A returned.
AfterA(result_a) == "B"

\* Lines 497-517: the texture is replaced by a solid colour when asked for,
\* and apply_combined_effects is called for side A.
GenerateComparison ==
    /\ req.pc = "idle"
    /\ nCalls < MaxCalls
    /\ \E texture \in Textures \cup {NoneArr}, use_solid_color \in BOOLEAN,
          background \in Backgrounds \cup {NoneArr}, mask \in Masks \cup {NoneArr},
          scale \in Scales, tile \in BOOLEAN, pa \in ParamSets, pb \in ParamSets :
         LET q == [pc |-> "A",
                   texture |-> IF use_solid_color THEN SolidTexture ELSE texture,
                   background |-> background, mask |-> mask, scale |-> scale,
                   tile |-> tile, a |-> pa, b |-> pb, cache0 |-> cache]
         IN  /\ req' = q
             /\ run' = [run EXCEPT !["A"] = BeginRun(ArgsOf(q, "A"), cache)]
    /\ nCalls' = nCalls + 1
    /\ UNCHANGED <<cache, obtained, st>>

\* Lines 519-535: side A has returned; apply_combined_effects is called for B.
SideB ==
    /\ req.pc = "A"
    /\ run["A"].pc = "done"
    /\ req' = [req EXCEPT !.pc = AfterA(run["A"].result)]
    /\ run' = IF req'.pc = "B"
              THEN [run EXCEPT !["B"] = BeginRun(ArgsOf(req, "B"), cache)]
              ELSE run
    /\ UNCHANGED <<cache, nCalls, obtained, st>>

\* Line 537: both results are returned.
Return ==
    /\ req.pc = "B"
    /\ run["B"].pc = "done"
    /\ req' = IdleReq
    /\ run' = [r \in Sides |-> IdleRun]
    /\ UNCHANGED <<cache, nCalls, obtained, st>>

Init ==
    /\ cache = [k \in Keys |-> Absent]
    /\ run = [r \in Sides |-> IdleRun]
    /\ req = IdleReq
    /\ nCalls = 0
    /\ obtained = [b \in Backgrounds |-> {}]
    /\ st = StageIdle

\* The call generate_comparison is waiting for takes its steps: side A's
\* call has returned before side B's begins.
Next == GenerateComparison \/ SideB \/ Return \/ \E r \in Sides : Step(r)

Spec == Init /\ [][Next]_vars

----------------------------------------------------------------------------
(* Two requests served at once: each calls apply_combined_effects *)

\* The backgrounds of the concurrent requests.
ConcBackgrounds == {BgWide, BgSquare}

\* A request arrives and apply_combined_effects is called for it.
ConcStart(r) ==
    /\ run[r].pc = "idle"
    /\ nCalls < MaxCalls
    /\ \E background \in ConcBackgrounds, p \in ParamSets, tile \in BOOLEAN :
         Set(r, BeginRun([texture |-> TexSmall, background |-> background,
                          mask |-> MaskSquare, scale |-> [num |-> 1, den |-> 1],
                          tile |-> tile, p |-> p], cache))
    /\ nCalls' = nCalls + 1
    /\ UNCHANGED <<cache, req, obtained, st>>

\* The call has returned and its result has been delivered.
ConcFinish(r) ==
    /\ run[r].pc = "done"
    /\ Set(r, IdleRun)
    /\ UNCHANGED <<cache, req, nCalls, obtained, st>>

ConcNext == \E r \in Sides : ConcStart(r) \/ Step(r) \/ ConcFinish(r)

ConcSpec == Init /\ [][ConcNext]_vars

----------------------------------------------------------------------------
(* The stage functions of composite.py called on open images, one after the  *)
(* other on the same buffers                                                 *)

\* Parameter groups that move one slider of the Level Adjuster at a time.
ParamContrast == [ParamDefault EXCEPT !.contrast = 20]
ParamLightness == [ParamDefault EXCEPT !.lightness = -10]
StageParams == ParamSets \cup {ParamContrast, ParamLightness}

\* Lines 201-204 and 234-247 of main.py: the images a call opens, as buffers
\* 1 to 5: texture, background, mask, depth and a lighting map.
OpenImages ==
    /\ st.pc = "idle"
    /\ \E texture \in Textures, background \in Backgrounds, mask \in Masks,
          p \in StageParams, scale \in Scales :
         LET bg == WandOpen(PngEncode(FromArray(background)))
             mk == WandOpen(PngEncode(FromArray(mask)))
             depth == WandOpen(PngEncode(handle_depth(background)))
             heap == <<WandOpen(PngEncode(FromArray(texture))), bg, mk, depth,
                       generate_lighting_map(depth, bg, mk, DefaultLightingStrength, "grey48")>>
         IN  st' = [StageIdle EXCEPT !.pc = "open", !.m = [heap |-> heap, log |-> <<>>],
                                     !.opened = heap, !.heap0 = heap, !.texture = 1, !.background = 2,
                                     !.mask = 3, !.depth = 4, !.lighting_map = 5,
                                     !.p = p, !.scale = scale]
    /\ UNCHANGED <<cache, run, req, nCalls, obtained>>

\* A stage function may be called: images are open and the bound on the
\* number of calls is not reached.
MayCall == st.pc \in {"open", "returned"} /\ st.n < MaxStages

\* The stage function fn, called on buffer `image` among others, has run with
\* outcome r.
Returned(fn, image, r) ==
    [st EXCEPT !.pc = "returned", !.fn = fn, !.m = r.m, !.heap0 = st.m.heap,
               !.from = Len(st.m.log), !.ret = r.ret, !.n = @ + 1, !.image = image]

\* main.py lines 205-210: texture = create_tiled_texture(texture, ...).
CallCreateTiledTexture ==
    /\ MayCall
    /\ LET r == create_tiled_textureH(st.m, st.texture, st.m.heap[st.background].w,
                                      st.m.heap[st.background].h, st.scale)
       IN  st' = [Returned("create_tiled_texture", st.texture, r)
                     EXCEPT !.texture = IF r.ret # 0 THEN r.ret ELSE @]
    /\ UNCHANGED <<cache, run, req, nCalls, obtained>>

\* main.py lines 238-242: lighting_map = generate_lighting_map(depth,
\* background, mask).
CallGenerateLightingMap ==
    /\ MayCall
    /\ LET r == generate_lighting_mapH(st.m, st.depth, st.background, st.mask,
                                       DefaultLightingStrength, "grey48")
       IN  st' = [Returned("generate_lighting_map", st.depth, r)
                     EXCEPT !.lighting_map = r.ret]
    /\ UNCHANGED <<cache, run, req, nCalls, obtained>>

\* adjust_levels called on the background.
CallAdjustLevels ==
    /\ MayCall
    /\ st' = Returned("adjust_levels", st.background,
                      adjust_levelsH(st.m, st.background, st.p.black, st.p.white,
                                     st.p.gamma, st.p.contrast, st.p.lightness))
    /\ UNCHANGED <<cache, run, req, nCalls, obtained>>

\* tint_masked_area called on the background and the mask.
CallTintMaskedArea ==
    /\ MayCall
    /\ st' = Returned("tint_masked_area", st.background,
                      tint_masked_areaH(st.m, st.background, st.mask, st.p))
    /\ UNCHANGED <<cache, run, req, nCalls, obtained>>

\* extract_high_frequency called on the background and the mask.
CallExtractHighFrequency ==
    /\ MayCall
    /\ st' = Returned("extract_high_frequency", st.background,
                      extract_high_frequencyH(st.m, st.background, st.mask,
                                              DefaultDetailBlur))
    /\ UNCHANGED <<cache, run, req, nCalls, obtained>>

\* main.py lines 245-260: composite_with_lighting on the open images.
CallCompositeWithLighting ==
    /\ MayCall
    /\ st' = Returned("composite_with_lighting", st.background,
                      composite_with_lightingH(st.m, st.texture, st.background, st.mask,
                                               st.lighting_map, st.p))
    /\ UNCHANGED <<cache, run, req, nCalls, obtained>>

StageNext ==
    \/ OpenImages
    \/ CallCreateTiledTexture
    \/ CallGenerateLightingMap
    \/ CallAdjustLevels
    \/ CallTintMaskedArea
    \/ CallExtractHighFrequency
    \/ CallCompositeWithLighting

StageSpec == Init /\ [][StageNext]_vars

\* The operations the last stage call ran, callees' included.
StageLog == SubSeq(st.m.log, st.from + 1, Len(st.m.log))

\* The operations the last stage call ran in its own body.
OwnLog == SelectSeq(StageLog, LAMBDA e : e.fn = st.fn)

----------------------------------------------------------------------------
(* apply_combined_effects as a function: what one call returns when nothing  *)
(* in its environment fails, from the cache it finds                         *)

SoloResult(c0, a) ==
    IF a.texture.none \/ a.background.none \/ a.mask.none
    THEN NoResult
    ELSE LET entry == c0[get_image_hash(a.background)]
             depth0 == IF entry.st = "complete" THEN PilOpen(entry.png)
                       ELSE handle_depth(a.background)
             depth == WandOpen(PngEncode(BlurDepth(depth0, a.p.blur)))
             texture == WandOpen(TextureFile(a))
             background == WandOpen(BackgroundFile(a))
             mask == WandOpen(MaskFile(a))
             t == create_tiled_texture(texture, background.w, background.h, a.scale)
         IN  IF a.tile /\ ~t.ok
             THEN NoResult
             ELSE LET source == IF a.tile THEN WandOpen(WandFile(t.img)) ELSE texture
                      displaced == displacement_mapping(source, depth, a.p.strength)
                      lighting_map == generate_lighting_map(depth, background, mask,
                                                            LightingStrengthArg(a.p), "grey48")
                      final == composite_with_lighting(WandOpen(WandFile(displaced)),
                                                       background, mask, lighting_map, a.p)
                  IN  [ok |-> TRUE, file |-> WandFile(final)]

----------------------------------------------------------------------------
(* Properties *)

\* The stages a call log names.
Called(rr, name) == CountCalls(rr.calls, name) > 0

\* C1 (cache determinism): once a call has obtained the depth image of a
\* background through the depth provider path, every later call on the same
\* background that obtains one gets a cache hit, without calling
\* handle_depth, and all the depth images obtained for one background are
\* the same image, whatever the calls' other parameters are.
CacheDeterminism ==
    /\ \A b \in Backgrounds : Cardinality(obtained[b]) <= 1
    /\ \A r \in Sides :
         run[r].prior => run[r].hit /\ ~Called(run[r], "handle_depth")

\* Side B gets a hit on the entry side A wrote, with other parameters.
CacheDeterminismWitness ==
    /\ run["A"].pc = "done" /\ Called(run["A"], "save_depth_map")
    /\ run["B"].prior /\ run["B"].hit
    /\ run["A"].args.p.blur # run["B"].args.p.blur
    /\ obtained[run["B"].args.background] = {handle_depth(run["B"].args.background)}

\* C2 (tiling exactness): every call of create_tiled_texture with a positive
\* scale_factor completes, returns a buffer of exactly the target size, and
\* stamps a scaled texture of at least 1 x 1.
TilingExactness ==
    \A r \in Sides :
        run[r].tiling.called /\ run[r].args.scale.num > 0 =>
            /\ run[r].tiling.ok
            /\ run[r].tiling.w = run[r].args.background.w
            /\ run[r].tiling.h = run[r].args.background.h
            /\ run[r].tiling.sw >= 1 /\ run[r].tiling.sh >= 1

\* C3 (mask dimension invariant): wherever a composite operation consumes
\* the mask, the mask has the background's width and height.
MaskMatchesBackground ==
    \A r \in Sides : \A i \in DOMAIN run[r].maskUse :
        /\ run[r].maskUse[i].mw = run[r].maskUse[i].bw
        /\ run[r].maskUse[i].mh = run[r].maskUse[i].bh

\* C4 (cache failure is not fatal): a call whose cache read or cache write
\* failed does not end there: the depth provider is called and the failure
\* is not what the call returns None for.
CacheFailureNonFatal ==
    \A r \in Sides :
        run[r].fault \in {"cache_read", "cache_write"} =>
            /\ Called(run[r], "handle_depth")
            /\ run[r].failedAt \notin {"get_cached_depth_map", "save_depth_map"}

\* The inputs the specification calls invalid (every image here has at least
\* one pixel).
InvalidInput(a) ==
    \/ a.texture.none \/ a.background.none \/ a.mask.none
    \/ a.p.white <= a.p.black
    \/ a.scale.num <= 0

\* C5 (invalid input does not start the pipeline): a call with invalid input
\* runs no stage: it reads and writes no cache entry, calls no provider,
\* tiler, displacement or composition, writes no file, and returns None.
InvalidInputStartsNothing ==
    \A r \in Sides :
        run[r].pc # "idle" /\ InvalidInput(run[r].args) =>
            /\ run[r].calls = <<>>
            /\ run[r].tmp = {}
            /\ run[r].pc \in {"check", "done"}
            /\ ~run[r].result.ok

\* C6 (the diagnosis names the failing stage): a failing call returns None
\* and logs depth generation for a failure while obtaining depth,
\* displacement for one in tiling or displacement_mapping, composition for
\* one in generate_lighting_map or composite_with_lighting.
DiagnosisNamesStage ==
    \A r \in Sides :
        run[r].pc = "done" /\ run[r].failedAt # "none" =>
            /\ ~run[r].result.ok
            /\ run[r].failedAt \in {"get_cached_depth_map", "handle_depth", "save_depth_map"}
                   => run[r].diag = "depth generation"
            /\ run[r].failedAt \in {"create_tiled_texture", "displacement_mapping"}
                   => run[r].diag = "displacement"
            /\ run[r].failedAt \in {"generate_lighting_map", "composite_with_lighting"}
                   => run[r].diag = "composition"

\* C7 (A/B failure isolation): when side A has returned None, side B is
\* still run on the same images, and unless B's own environment fails, B
\* returns what it returns when called alone on the cache the comparison
\* found.
FailureIsolation ==
    req.pc \notin {"idle", "A"} /\ ~run["A"].result.ok =>
        /\ req.pc = "B"
        /\ run["B"].pc # "idle"
        /\ run["B"].args = ArgsOf(req, "B")
        /\ run["B"].pc = "done" /\ run["B"].fault = "none"
               => run["B"].result = SoloResult(req.cache0, run["B"].args)

\* Side A failed in a stage after storing its depth image, and side B
\* returned a composite made from the cached one.
FailureIsolationWitness ==
    /\ req.pc = "B"
    /\ run["A"].failedAt = "displacement_mapping"
    /\ Called(run["A"], "save_depth_map")
    /\ run["B"].pc = "done" /\ run["B"].hit /\ run["B"].result.ok

\* C8 (concurrent misses are safe): under every interleaving no call reads
\* an entry that is still being written, a lookup is a miss or the complete
\* depth image of the provider for that background, and all calls on one
\* background obtain the same depth image.
ConcurrentMissesSafe ==
    /\ \A r \in Sides : ~run[r].readPartial
    /\ \A r \in Sides : run[r].hit /\ run[r].pc = "blur" =>
           run[r].depth_image = handle_depth(run[r].args.background)
    /\ \A b \in Backgrounds : obtained[b] \subseteq {handle_depth(b)}

\* C9 (a depth estimation failure is fatal and not retried): a call in which
\* handle_depth failed returns None, has called handle_depth once, has run
\* no store, tiling, displacement, lighting or composition, and leaves the
\* cache as it found it.
DepthFailureFatal ==
    \A r \in Sides :
        req.pc = r /\ run[r].failedAt = "handle_depth" =>
            /\ run[r].pc = "done"
            /\ ~run[r].result.ok
            /\ run[r].calls = <<"get_cached_depth_map", "handle_depth">>
            /\ cache = run[r].cache0

\* handle_depth failed in a call that found an entry of another background
\* in the cache.
DepthFailureFatalWitness ==
    /\ req.pc = "A"
    /\ run["A"].failedAt = "handle_depth"
    /\ \E k \in Keys : cache[k].st = "complete"

\* C10 (cache entries are the provider's unblurred output): whenever a call
\* has looked its background up, the entry that exists under the
\* background's content hash is the depth provider's unblurred output for
\* that background.
CacheEntryIsProviderOutput ==
    \A r \in Sides :
        LET b == run[r].args.background
            entry == cache[get_image_hash(b)]
        IN  Called(run[r], "get_cached_depth_map") /\ entry.st = "complete"
                => PilOpen(entry.png) = handle_depth(b)

\* C15 (temporary files are removed): once a call of apply_combined_effects
\* has returned, by success, by the early None or by a failure at any stage,
\* none of its temporary files (texture, background, mask, depth, tiled
\* texture, displaced texture) exists; of the files it wrote only the final
\* output remains, and that only when the call succeeded.
TempFilesRemoved ==
    \A r \in Sides :
        run[r].pc = "done" =>
            /\ run[r].tmp \cap TempNames = {}
            /\ run[r].tmp \subseteq {"final"}
            /\ ("final" \in run[r].tmp) = run[r].result.ok

\* A call that tiled, displaced and then failed in the composition has
\* returned.
TempFilesRemovedWitness ==
    \E r \in Sides :
        /\ run[r].pc = "done"
        /\ run[r].failedAt = "composite_with_lighting"
        /\ run[r].tiling.ok
        /\ Called(run[r], "displacement_mapping")

\* Two calls that have both built their lighting layer from the same
\* background, mask and blurred depth image, with different lighting_strength.
LightingPair(r1, r2) ==
    /\ run[r1].lighting_map # NoImage
    /\ run[r2].lighting_map # NoImage
    /\ run[r1].args.background = run[r2].args.background
    /\ run[r1].args.mask = run[r2].args.mask
    /\ run[r1].depth_image = run[r2].depth_image
    /\ run[r1].args.p.blur = run[r2].args.p.blur
    /\ run[r1].args.p.lighting # run[r2].args.p.lighting

\* C16 (the lighting layer does not depend on lighting_strength): two calls
\* on the same images and blur_radius that differ in lighting_strength build
\* the same lighting layer, the one generate_lighting_map gives with its
\* default strength and colour; lighting_strength enters a call only as the
\* transparentize(1 - lighting_strength) of that layer inside
\* composite_with_lighting.
LightingLayerIgnoresStrength ==
    \A r1, r2 \in Sides :
        LightingPair(r1, r2) =>
            /\ run[r1].lighting_map = run[r2].lighting_map
            /\ run[r1].lighting_map =
                   generate_lighting_map(WandOpen(PngEncode(run[r1].depth_image)),
                                         WandOpen(BackgroundFile(run[r1].args)),
                                         WandOpen(MaskFile(run[r1].args)),
                                         DefaultLightingStrength, "grey48")
            /\ \A r \in {r1, r2} :
                  run[r].final_result # NoImage =>
                      run[r].final_result =
                          composite_with_lighting(WandOpen(WandFile(run[r].texture)),
                                                  WandOpen(BackgroundFile(run[r].args)),
                                                  WandOpen(MaskFile(run[r].args)),
                                                  run[r].lighting_map, run[r].args.p)

\* Both calls of such a pair have composed their final image.
LightingLayerIgnoresStrengthWitness ==
    \E r1, r2 \in Sides :
        /\ LightingPair(r1, r2)
        /\ run[r1].final_result # NoImage
        /\ run[r2].final_result # NoImage

\* The Level Adjuster's neutral setting: black 0, white 100, gamma 1.0,
\* contrast 1.0, lightness 0.
Neutral(p) ==
    p.black = 0 /\ p.white = 100 /\ p.gamma = 10 /\ p.contrast = 10 /\ p.lightness = 0

\* The names of the operations of a log, in order.
OpNames(log) == [k \in 1..Len(log) |-> log[k].op]

\* C13 (order and conditions of the Level Adjuster): adjust_levels runs, on
\* one working copy of its input, the tone-curve remap first, then the
\* sigmoidal contrast exactly when contrast is not 1.0, then the brightness
\* modulation exactly when lightness is not 0, each on what the step before
\* left, and returns a copy of the outcome; with the neutral setting neither
\* the contrast nor the lightness step runs and the returned image has the
\* pixels of the input.
AdjustLevelsOrder ==
    st.pc = "returned" /\ st.fn = "adjust_levels" =>
        LET ops == OwnLog
            n == Len(ops)
            input == st.heap0[st.image]
        IN  /\ OpNames(ops) =
                   <<"clone", "level">>
                   \o (IF st.p.contrast # 10 THEN <<"sigmoidal_contrast">> ELSE <<>>)
                   \o (IF st.p.lightness # 0 THEN <<"modulate">> ELSE <<>>)
                   \o <<"return">>
            /\ ops[1].src = st.image /\ ops[1].out = input
            /\ \A k \in 2..(n - 1) : ops[k].dst = ops[1].dst
            /\ ops[2].out.px = input.px
                  \/ ops[2].out.px = <<"level", <<st.p.black, st.p.white, st.p.gamma>>, input.px>>
            /\ \A k \in 3..(n - 1) : ops[k].out.px[3] = ops[k - 1].out.px
            /\ ops[n].src = ops[1].dst
            /\ ops[n].dst = st.ret
            /\ st.m.heap[st.ret] = ops[n - 1].out
            /\ Neutral(st.p) => st.m.heap[st.ret] = input

\* adjust_levels has returned from a call with the neutral setting.
AdjustLevelsOrderWitness ==
    st.pc = "returned" /\ st.fn = "adjust_levels" /\ Neutral(st.p) /\ st.ret # 0

\* The composite of the last stage call's own body with operator `how`.
Blend(how) ==
    LET k == CHOOSE j \in 1..Len(OwnLog) :
                 OwnLog[j].op = "composite" /\ OwnLog[j].how = how
    IN  [at |-> k, e |-> OwnLog[k]]

\* How often the last stage call's own body ran the operation op.
Ran(op, how) ==
    Len(SelectSeq(OwnLog, LAMBDA e : e.op = op /\ e.how = how))

\* C11 (detail_strength 0 skips the detail overlay): in
\* composite_with_lighting, with detail_strength = 0 the detail layer is
\* neither scaled nor overlaid and the returned image is the image left by
\* the texture multiply; with detail_strength > 0 the detail layer (the
\* high-frequency layer of the background) is scaled by detail_strength and
\* overlaid exactly once, after the multiply, and the outcome is returned.
DetailOverlayOnlyWhenPositive ==
    st.pc = "returned" /\ st.fn = "composite_with_lighting" =>
        /\ Ran("composite", "multiply") = 1
        /\ IF st.p.detail = 0
           THEN /\ Ran("composite", "overlay") = 0
                /\ Ran("evaluate_multiply", "") = 0
                /\ st.m.heap[st.ret] = Blend("multiply").e.out
           ELSE /\ Ran("composite", "overlay") = 1
                /\ Ran("evaluate_multiply", "") = 1
                /\ Blend("overlay").at > Blend("multiply").at
                /\ LET over == Blend("overlay")
                       scaled == OwnLog[over.at - 1]
                       high_freq == extract_high_frequency(st.heap0[st.background],
                                                           st.heap0[st.mask],
                                                           DefaultDetailBlur)
                   IN  /\ scaled.op = "evaluate_multiply"
                       /\ scaled.dst = over.e.src
                       /\ scaled.out = Apply(high_freq, "evaluate_multiply", st.p.detail)
                       /\ over.e.dst = Blend("multiply").e.dst
                       /\ over.e.out = Composite(Blend("multiply").e.out, scaled.out, "overlay")
                       /\ st.m.heap[st.ret] = over.e.out

\* composite_with_lighting has returned from a call with detail_strength 0.
DetailOverlayOnlyWhenPositiveWitness ==
    st.pc = "returned" /\ st.fn = "composite_with_lighting" /\ st.p.detail = 0 /\ st.ret # 0

\* The calls and composites of the last stage call's own body, in order.
Steps == SelectSeq(OwnLog, LAMBDA e : e.op \in {"call", "composite"})

\* C12 (order of the composition): composite_with_lighting runs, in this
\* order, (1) the high-frequency extraction, on the background as it was
\* passed, before anything else, (2) the tint of that same background by the
\* Level Adjuster and the mask, (3) the clip of a copy of the texture to the
\* mask, (4) the 'hard_light' blend of the lighting onto the tinted
\* background, (5) the 'multiply' of the clipped texture onto it, and (6)
\* the 'overlay' of the detail only when detail_strength > 0.
CompositionOrder ==
    st.pc = "returned" /\ st.fn = "composite_with_lighting" =>
        LET background == st.heap0[st.background]
            mask == st.heap0[st.mask]
            tinted == tint_masked_area(background, mask, st.p)
        IN  /\ [k \in 1..Len(Steps) |-> Steps[k].how] =
                   <<"extract_high_frequency", "tint_masked_area", "copy_opacity",
                     "hard_light", "multiply">>
                   \o (IF st.p.detail > 0 THEN <<"overlay">> ELSE <<>>)
            /\ StageLog[1] = Steps[1]
            /\ Steps[1].src = st.background /\ Steps[1].out = background
            /\ Steps[2].src = st.background /\ Steps[2].out = background
            /\ Steps[3].out = Composite(st.heap0[st.texture], mask, "copy_opacity")
            /\ Steps[3].src = st.mask
            /\ Steps[4].out =
                   Composite(tinted,
                             Apply(st.heap0[st.lighting_map], "transparentize",
                                   10 - st.p.lighting),
                             "hard_light")
            /\ Steps[5].dst = Steps[4].dst /\ Steps[5].src = Steps[3].dst
            /\ Steps[5].out = Composite(Steps[4].out, Steps[3].out, "multiply")
            /\ Len(Steps) = 6 => Steps[6].dst = Steps[5].dst

\* composite_with_lighting has returned from a call with a positive
\* detail_strength and a Level Adjuster setting that is not neutral.
CompositionOrderWitness ==
    /\ st.pc = "returned" /\ st.fn = "composite_with_lighting" /\ st.ret # 0
    /\ st.p.detail > 0 /\ ~Neutral(st.p)

\* C14 (stage functions leave their arguments alone): a call of
\* create_tiled_texture, generate_lighting_map, adjust_levels,
\* tint_masked_area, extract_high_frequency or composite_with_lighting
\* leaves every buffer that existed before it unchanged, and what it returns
\* is a buffer it created; so the opened images are, at every call, as they
\* were opened, whatever stages ran before.
StagesLeaveArgumentsUnchanged ==
    st.pc = "returned" =>
        /\ \A i \in 1..Len(st.heap0) : st.m.heap[i] = st.heap0[i]
        /\ SubSeq(st.m.heap, 1, Len(st.opened)) = st.opened
        /\ st.ret # 0 =>
              /\ st.ret > Len(st.heap0)
              /\ st.ret = Len(st.m.heap)
              /\ StageLog[Len(StageLog)].op = "return"
              /\ StageLog[Len(StageLog)].fn = st.fn

\* composite_with_lighting has returned after an earlier stage call on the
\* same open images.
StagesLeaveArgumentsUnchangedWitness ==
    /\ st.pc = "returned" /\ st.fn = "composite_with_lighting" /\ st.ret # 0
    /\ st.n = 2
    /\ Len(st.heap0) > Len(st.opened)

====
